---- MODULE Spec2Model ----
(***************************************************************************)
(* Job lifecycle of yolo_processor.py: the rows of the yolo_processing     *)
(* table, the status writes of update_processing_status, one attempt of    *)
(* process_single_image, the pending and failed sweeps, the retry policy   *)
(* and cleanup_old_failures.                                               *)
(*                                                                         *)
(* Time is counted in whole hours.  Optional values (a NULL column, a      *)
(* Python None) are sequences of length at most one: <<>> is None and      *)
(* <<v>> is the value v.                                                   *)
(***************************************************************************)
EXTENDS Integers, Sequences, FiniteSets, TLC

VARIABLES table, now, faults, pc, queue, cur, log, ret, run, hist

vars == <<table, now, faults, pc, queue, cur, log, ret, run, hist>>

----------------------------------------------------------------------------
(* Program constants *)

MAX_RETRY_COUNT == 3

RETRY_DELAY_HOURS == 1

CLEANUP_DAYS == 7

CLEANUP_AGE_HOURS == CLEANUP_DAYS * 24

----------------------------------------------------------------------------
(* Bounds of the model *)

\* the clock is observed at every multiple of the cleanup age up to this
\* one, and one retry delay after each
MaxCoarse == 2

\* store operations (writes, queries, deletes) the store may reject
MaxFaults == 2

\* largest retry_count of the rows drawn as inputs of the policy checks
MaxInputRetry == 4

\* ids of the rows of the table
RecordIds == {1, 2}

\* invocations of the script that may exist at once; Spec runs one
Runners == {1, 2}

Instants ==
    {c * CLEANUP_AGE_HOURS + f * RETRY_DELAY_HOURS :
        c \in 0..MaxCoarse, f \in {0, 1}}

----------------------------------------------------------------------------
(* Optional values and Python truthiness *)

None == <<>>

Some(v) == <<v>>

\* `if x:` for an optional string: None and "" are falsy
TruthyStr(opt) == opt # None /\ opt[1] # ""

\* `if x:` for an optional list: None and [] are falsy
TruthyList(opt) == opt # None /\ Len(opt[1]) > 0

\* `if x:` for an optional object that is never empty (a URL, a timestamp)
TruthyObj(opt) == opt # None

----------------------------------------------------------------------------
(* Timestamps.  A timestamp string is [kind, t]: "naive" is ISO text       *)
(* without an offset, "aware" is ISO text with an offset or a trailing Z,  *)
(* "garbage" is text fromisoformat rejects.  t is the instant it denotes.  *)

\* datetime.now().isoformat() at instant t: local time, no offset.  The
\* store gives the text back as it was written.
IsoFormat(t) == [kind |-> "naive", t |-> t]

\* datetime.fromisoformat(s.replace('Z', '+00:00'))
FromIsoFormat(s) ==
    IF s.kind = "garbage"
    THEN [ok |-> FALSE, aware |-> FALSE, t |-> 0]
    ELSE [ok |-> TRUE, aware |-> s.kind = "aware", t |-> s.t]

----------------------------------------------------------------------------
(* Rows of the yolo_processing table *)

Filename(id) == [name |-> "capture", n |-> id]

OriginalUrl(id) == [bucket |-> "images", key |-> Filename(id)]

\* a row as the uploader inserts it: pending, never attempted
NewRow(id) ==
    [id                  |-> id,
     filename            |-> Filename(id),
     original_image_url  |-> OriginalUrl(id),
     created_at          |-> Some(IsoFormat(0)),
     status              |-> "pending",
     processed           |-> FALSE,
     processed_image_url |-> None,
     processing_result   |-> None,
     error_message       |-> None,
     retry_count         |-> 0,
     last_error          |-> None,
     updated_at          |-> None,
     processed_at        |-> None]

\* the function with the empty domain (no column set)
NoColumns == [c \in {} |-> None]

\* ProcessedFlag with the comparison against the wrong status
ProcessedFlag_NotFailed(status) == status # "failed"

\* the "processed" column of update_data
ProcessedFlag(status) == status = "completed"

\* CompletedColumns without the reset of retry_count
CompletedColumns_KeepCount(t) ==
    [processed_at |-> Some(IsoFormat(t)),
     last_error   |-> None]

\* the columns update_data gets when status is completed, after every other
CompletedColumns(t) ==
    [processed_at |-> Some(IsoFormat(t)),
     retry_count  |-> 0,
     last_error   |-> None]

\* update_data as update_processing_status builds it at instant t; only the
\* columns in its domain are sent to the store
UpdateData(status, processed_image_url, processing_result, error_message, retry_count, last_error, t) ==
    LET base == [status     |-> status,
                 processed  |-> ProcessedFlag(status),
                 updated_at |-> Some(IsoFormat(t))]
        url  == IF TruthyObj(processed_image_url)
                THEN "processed_image_url" :> processed_image_url ELSE NoColumns
        res  == IF TruthyList(processing_result)
                THEN "processing_result" :> processing_result ELSE NoColumns
        err  == IF TruthyStr(error_message)
                THEN "error_message" :> error_message ELSE NoColumns
        rc   == IF retry_count # None
                THEN "retry_count" :> retry_count[1] ELSE NoColumns
        le   == IF TruthyStr(last_error)
                THEN "last_error" :> last_error ELSE NoColumns
        done == IF status = "completed" THEN CompletedColumns(t) ELSE NoColumns
    IN  done @@ le @@ rc @@ err @@ res @@ url @@ base

\* the store's UPDATE ... WHERE id = record_id: the columns sent replace the
\* row's, every other column keeps its value
ApplyUpdate(row, data) ==
    [c \in DOMAIN row |-> IF c \in DOMAIN data THEN data[c] ELSE row[c]]

\* UpdateProcessingStatus whose processing write is guarded by the status:
\* UPDATE ... WHERE id = record_id AND status IN ('pending', 'failed')
UpdateProcessingStatus_IfWaiting(tbl, record_id, data, ok) ==
    IF /\ ok /\ record_id \in DOMAIN tbl
       /\ data.status = "processing" => tbl[record_id].status \in {"pending", "failed"}
    THEN [tbl EXCEPT ![record_id] = ApplyUpdate(@, data)]
    ELSE tbl

\* UpdateProcessingStatus without its row filter: UPDATE with no WHERE
UpdateProcessingStatus_AllRows(tbl, record_id, data, ok) ==
    IF ok THEN [r \in DOMAIN tbl |-> ApplyUpdate(tbl[r], data)] ELSE tbl

\* the table after update_processing_status; ok is FALSE when the store
\* rejects the write (response.error or an exception), and then nothing is
\* written.  The function returns ok.
UpdateProcessingStatus(tbl, record_id, data, ok) ==
    IF ok /\ record_id \in DOMAIN tbl
    THEN [tbl EXCEPT ![record_id] = ApplyUpdate(@, data)]
    ELSE tbl

----------------------------------------------------------------------------
(* RetryPolicy *)

\* should_retry_failed_image without the test against MAX_RETRY_COUNT
should_retry_no_limit(record, t) ==
    IF ~TruthyObj(record.updated_at) THEN TRUE
    ELSE LET last_error_dt == FromIsoFormat(record.updated_at[1])
         IN  IF ~last_error_dt.ok THEN TRUE
             ELSE IF last_error_dt.aware THEN TRUE
             ELSE t - last_error_dt.t >= RETRY_DELAY_HOURS

\* should_retry_failed_image without the backoff test
should_retry_no_backoff(record, t) == record.retry_count < MAX_RETRY_COUNT

should_retry_failed_image(record, t) ==
    IF record.retry_count >= MAX_RETRY_COUNT THEN FALSE
    ELSE IF ~TruthyObj(record.updated_at) THEN TRUE
    ELSE LET last_error_dt == FromIsoFormat(record.updated_at[1])
         IN  IF ~last_error_dt.ok THEN TRUE          \* ValueError, caught
             ELSE IF last_error_dt.aware THEN TRUE   \* naive - aware: TypeError, caught
             ELSE IF t - last_error_dt.t < RETRY_DELAY_HOURS THEN FALSE
             ELSE TRUE

----------------------------------------------------------------------------
(* InferenceService: download, detection, upload *)

PublicUrl(filename) == [bucket |-> "processed-images", key |-> filename]

DetectionLists == {<<>>, <<"person">>}

\* str(e) in the except branch.  Download, detection and upload fail the
\* same way, by an Exception that carries a text; one text stands for the
\* three.
ErrorMessages == {"Failed to download image"}

InferenceOutcomes(record) ==
    {[ok |-> TRUE, url |-> Some(PublicUrl(record.filename)), detections |-> d,
      msg |-> ""] : d \in DetectionLists}
    \cup
    {[ok |-> FALSE, url |-> None, detections |-> <<>>, msg |-> m] :
        m \in ErrorMessages}

\* NewRetryCount without the increment
NewRetryCount_Unchanged(record) == record.retry_count

\* NewRetryCount that does not read the row's count
NewRetryCount_FromZero(record) == 0 + 1

\* new_retry_count in the except branch of process_single_image
NewRetryCount(record) == record.retry_count + 1

----------------------------------------------------------------------------
(* State *)

\* what the log keeps of one call of update_processing_status in an attempt
\* on record: the row, the retry_count the attempt read, the status and
\* retry_count sent, whether an error message was sent, and whether the
\* store accepted the write
LogEntry(record, data, ok) ==
    [id          |-> record.id,
     read        |-> record.retry_count,
     status      |-> data.status,
     retry_count |-> IF "retry_count" \in DOMAIN data
                     THEN Some(data.retry_count) ELSE None,
     error       |-> "error_message" \in DOMAIN data,
     ok          |-> ok]

\* the outcomes the store may give the next operation: TRUE is accepted
StoreOutcomes == IF faults < MaxFaults THEN {TRUE, FALSE} ELSE {TRUE}

Charge(ok) == IF ok THEN faults ELSE faults + 1

\* the ids of S in the order the store returns rows: by id
Ordered(S) ==
    CHOOSE q \in [1..Cardinality(S) -> S] :
        \A i, j \in 1..Cardinality(S) : i < j => q[i] < q[j]

\* Query without its status filter
Query_AnyStatus(tbl, status) ==
    [i \in 1..Cardinality(DOMAIN tbl) |-> tbl[Ordered(DOMAIN tbl)[i]]]

\* select("*").eq("status", status).execute().data
Query(tbl, status) ==
    LET ids == {r \in DOMAIN tbl : tbl[r].status = status}
    IN  [i \in 1..Cardinality(ids) |-> tbl[Ordered(ids)[i]]]

\* QueryRecords that loops over the rows whatever the response says
QueryRecords_IgnoreError(tbl, status, ok) == Query(tbl, status)

\* the rows a sweep loops over: response.data, or none when the query fails
\* (response.error or an exception) and the sweep returns
QueryRecords(tbl, status, ok) == IF ok THEN Query(tbl, status) ELSE <<>>

\* bookkeeping of one invocation of process_all_images: the attempts each
\* sweep has made on each row so far, each row's retry_count when the
\* invocation began, and whether its pending query was answered
NewRun(tbl, ok) ==
    [pending    |-> [r \in RecordIds |-> 0],
     failed     |-> [r \in RecordIds |-> 0],
     base       |-> [r \in RecordIds |->
                       IF r \in DOMAIN tbl THEN tbl[r].retry_count ELSE 0],
     pending_ok |-> ok]

NoRun == NewRun(<<>>, TRUE)

Init ==
    /\ table = [r \in RecordIds |-> NewRow(r)]
    /\ now = 0
    /\ faults = 0
    /\ pc = [w \in Runners |-> "idle"]
    /\ queue = [w \in Runners |-> <<>>]
    /\ cur = [w \in Runners |-> None]
    /\ log = [w \in Runners |-> <<>>]
    /\ ret = [w \in Runners |-> None]
    /\ run = [w \in Runners |-> NoRun]
    /\ hist = [fails    |-> [r \in RecordIds |-> 0],
               lost     |-> [r \in RecordIds |-> FALSE],
               attempts |-> [r \in RecordIds |-> 0]]

----------------------------------------------------------------------------
(* Operations *)

\* the clock moves on to a later instant.  Hours pass while the runner waits
\* for the scheduler and while an attempt downloads, detects and uploads
\* (requests.get has no timeout); the store calls in between take none.
Pass(W) ==
    /\ (\A w \in W : pc[w] = "idle") \/ (\E w \in W : cur[w] # None)
    /\ \E t \in Instants : t > now /\ now' = t
    /\ UNCHANGED <<table, faults, pc, queue, cur, log, ret, run, hist>>

\* process_all_images begins: process_pending_images queries the pending
\* rows; a failed query returns from the sweep with nothing attempted
ProcessPendingQuery(w) ==
    /\ pc[w] = "idle"
    /\ \E ok \in StoreOutcomes :
         /\ faults' = Charge(ok)
         /\ queue' = [queue EXCEPT ![w] = QueryRecords(table, "pending", ok)]
         /\ run' = [run EXCEPT ![w] = NewRun(table, ok)]
    /\ pc' = [pc EXCEPT ![w] = "pending"]
    /\ ret' = [ret EXCEPT ![w] = None]
    /\ log' = [log EXCEPT ![w] = <<>>]
    /\ UNCHANGED <<table, now, cur, hist>>

\* Proceeds that gives the attempt up when the processing write is rejected
Proceeds_OnlyIfWritten(ok) == ok

\* whether process_single_image goes on to the inference after its
\* processing write: the value update_processing_status returns there is
\* dropped
Proceeds(ok) == TRUE

\* process_single_image, up to the inference: the next row of the sweep is
\* taken and the processing status is written; the result of that write is
\* not looked at
AttemptBegin(w) ==
    /\ pc[w] \in {"pending", "failed"}
    /\ cur[w] = None
    /\ queue[w] # <<>>
    /\ LET record == Head(queue[w])
           data   == UpdateData("processing", None, None, None, None, None, now)
       IN  \E ok \in StoreOutcomes :
             /\ faults' = Charge(ok)
             /\ table' = UpdateProcessingStatus(table, record.id, data, ok)
             /\ log' = [log EXCEPT ![w] =
                            <<LogEntry(record, data, ok)>>]
             /\ cur' = [cur EXCEPT ![w] =
                            IF Proceeds(ok) THEN Some(record) ELSE None]
             /\ queue' = [queue EXCEPT ![w] = Tail(queue[w])]
             /\ ret' = [ret EXCEPT ![w] =
                            IF Proceeds(ok) THEN None ELSE Some(FALSE)]
             /\ run' = IF pc[w] = "pending"
                       THEN [run EXCEPT ![w].pending[record.id] = @ + 1]
                       ELSE [run EXCEPT ![w].failed[record.id] = @ + 1]
             /\ hist' = [hist EXCEPT !.attempts[record.id] = @ + 1]
    /\ UNCHANGED <<now, pc>>

\* the terminal write of process_single_image after a successful inference
CompletedData(out, t) ==
    UpdateData("completed", out.url, Some(out.detections), None, None, None, t)

\* the terminal write of process_single_image in its except branch
FailedData(record, out, t) ==
    UpdateData("failed", None, None, Some(out.msg),
               Some(NewRetryCount(record)), Some(out.msg), t)

\* process_single_image, from the inference to its return
AttemptEnd(w) ==
    /\ cur[w] # None
    /\ LET record == cur[w][1]
       IN  \E out \in InferenceOutcomes(record), ok \in StoreOutcomes :
             LET data == IF out.ok THEN CompletedData(out, now)
                         ELSE FailedData(record, out, now)
             IN  /\ faults' = Charge(ok)
                 /\ table' = UpdateProcessingStatus(table, record.id, data, ok)
                 /\ log' = [log EXCEPT ![w] =
                        Append(@, LogEntry(record, data, ok))]
                 /\ ret' = [ret EXCEPT ![w] = Some(out.ok /\ ok)]
                 /\ hist' = [hist EXCEPT
                        !.fails[record.id] = IF out.ok THEN 0 ELSE @ + 1,
                        !.lost[record.id]  = @ \/ ~ok]
    /\ cur' = [cur EXCEPT ![w] = None]
    /\ UNCHANGED <<now, pc, queue, run>>

\* retry_failed_images, up to its loop: the failed rows are queried and
\* filtered through should_retry_failed_image
RetryFailedQuery(w) ==
    /\ pc[w] = "pending"
    /\ cur[w] = None
    /\ queue[w] = <<>>
    /\ \E ok \in StoreOutcomes :
         /\ faults' = Charge(ok)
         /\ queue' = [queue EXCEPT ![w] =
                SelectSeq(QueryRecords(table, "failed", ok),
                    LAMBDA record : should_retry_failed_image(record, now))]
    /\ pc' = [pc EXCEPT ![w] = "failed"]
    /\ UNCHANGED <<table, now, cur, log, ret, run, hist>>

\* CleanupEligible with <= for < in the age test
CleanupEligible_Inclusive(record, cutoff_time) ==
    /\ record.retry_count >= MAX_RETRY_COUNT
    /\ TruthyObj(record.updated_at)
    /\ LET updated_dt == FromIsoFormat(record.updated_at[1])
       IN  updated_dt.ok /\ ~updated_dt.aware /\ updated_dt.t <= cutoff_time

\* the test of cleanup_old_failures on one row of its query
CleanupEligible(record, cutoff_time) ==
    /\ record.retry_count >= MAX_RETRY_COUNT
    /\ TruthyObj(record.updated_at)
    /\ LET updated_dt == FromIsoFormat(record.updated_at[1])
       IN  /\ updated_dt.ok              \* else ValueError, caught
           /\ ~updated_dt.aware          \* else aware < naive: TypeError, caught
           /\ updated_dt.t < cutoff_time

\* cleanup_old_failures, run by __main__ after process_all_images; a delete
\* the store rejects leaves its row and the loop goes on
CleanupOldFailures(w) ==
    /\ pc[w] = "failed"
    /\ cur[w] = None
    /\ queue[w] = <<>>
    /\ LET cutoff_time == now - CLEANUP_AGE_HOURS
       IN  \E ok \in StoreOutcomes :
             IF ok
             THEN LET hit == {r \in DOMAIN table :
                                /\ table[r].status = "failed"
                                /\ CleanupEligible(table[r], cutoff_time)}
                  IN  \E gone \in SUBSET hit :
                        /\ faults + Cardinality(hit \ gone) <= MaxFaults
                        /\ faults' = faults + Cardinality(hit \ gone)
                        /\ table' = [r \in DOMAIN table \ gone |-> table[r]]
             ELSE /\ faults' = Charge(ok)
                  /\ table' = table
    /\ pc' = [pc EXCEPT ![w] = "idle"]
    /\ UNCHANGED <<now, queue, cur, log, ret, run, hist>>

Step(w) ==
    \/ ProcessPendingQuery(w)
    \/ AttemptBegin(w)
    \/ AttemptEnd(w)
    \/ RetryFailedQuery(w)
    \/ CleanupOldFailures(w)

\* a single runner, started again and again by the scheduler
Tick == Pass({1})

Next ==
    \/ Tick
    \/ Step(1)

Spec == Init /\ [][Next]_vars

\* the same runner under a scheduler that keeps starting it and a script
\* that runs on to its last line: a step of the runner that can be taken is
\* taken
FairSpec == Spec /\ WF_vars(Step(1))

\* two invocations of the script at once (two scheduled jobs that overlap),
\* on the same table
Overlap == \E w \in Runners : Step(w)

\* the row a first attempt at instant t leaves when its inference fails and
\* the store accepts both writes
FailedOnce(id, t) ==
    LET record == NewRow(id)
        out    == CHOOSE o \in InferenceOutcomes(record) : ~o.ok
        begun  == ApplyUpdate(record,
                    UpdateData("processing", None, None, None, None, None, t))
    IN  ApplyUpdate(begun, FailedData(record, out, t))

\* the overlap is looked at from the instant at which one row is new and
\* the other has failed once, RETRY_DELAY ago, with a store that accepts
\* every operation
InitOverlap ==
    /\ table = [r \in RecordIds |-> IF r = 1 THEN NewRow(r) ELSE FailedOnce(r, 0)]
    /\ now = RETRY_DELAY_HOURS
    /\ faults = MaxFaults
    /\ pc = [w \in Runners |-> "idle"]
    /\ queue = [w \in Runners |-> <<>>]
    /\ cur = [w \in Runners |-> None]
    /\ log = [w \in Runners |-> <<>>]
    /\ ret = [w \in Runners |-> None]
    /\ run = [w \in Runners |-> NoRun]
    /\ hist = [fails    |-> [r \in RecordIds |-> IF r = 1 THEN 0 ELSE 1],
               lost     |-> [r \in RecordIds |-> FALSE],
               attempts |-> [r \in RecordIds |-> IF r = 1 THEN 0 ELSE 1]]

SpecOverlap == InitOverlap /\ [][Overlap]_vars

----------------------------------------------------------------------------
(* The two policy decisions, RetryFailedQuery and CleanupOldFailures, on    *)
(* every table of failed rows the store may hold.                          *)

\* the timestamp strings a row's updated_at may hold
TimestampStrings ==
    [kind : {"naive", "aware"}, t : Instants] \cup {[kind |-> "garbage", t |-> 0]}

\* a failed row with the given retry_count and updated_at
FailedRow(id, retry_count, updated_at) ==
    [NewRow(id) EXCEPT
        !.status        = "failed",
        !.error_message = Some("Failed to download image"),
        !.last_error    = Some("Failed to download image"),
        !.retry_count   = retry_count,
        !.updated_at    = updated_at]

InputRows(id) ==
    {FailedRow(id, n, u) :
        n \in 0..MaxInputRetry,
        u \in {None} \cup {Some(ts) : ts \in TimestampStrings}}

\* the runner stands before retry_failed_images or before
\* cleanup_old_failures, at any instant, and the store answers
InitDecide ==
    /\ table \in [RecordIds -> UNION {InputRows(r) : r \in RecordIds}]
    /\ \A r \in RecordIds : table[r].id = r
    /\ now \in Instants
    /\ faults = MaxFaults
    /\ pc \in {[w \in Runners |-> IF w = 1 THEN p ELSE "idle"] : p \in {"pending", "failed"}}
    /\ queue = [w \in Runners |-> <<>>]
    /\ cur = [w \in Runners |-> None]
    /\ log = [w \in Runners |-> <<>>]
    /\ ret = [w \in Runners |-> None]
    /\ run = [w \in Runners |-> NoRun]
    /\ hist = [fails    |-> [r \in RecordIds |-> 0],
               lost     |-> [r \in RecordIds |-> FALSE],
               attempts |-> [r \in RecordIds |-> 0]]

NextDecide ==
    \/ RetryFailedQuery(1)
    \/ CleanupOldFailures(1)

SpecDecide == InitDecide /\ [][NextDecide]_vars

----------------------------------------------------------------------------
(* Properties *)

Rows == DOMAIN table

\* runner w is between the two writes of an attempt on row r
Attempting(w, r) == cur[w] # None /\ cur[w][1].id = r

\* the edges of the record lifecycle
LifecycleEdges ==
    {<<"pending", "processing">>, <<"failed", "processing">>,
     <<"processing", "completed">>, <<"processing", "failed">>}

\* the edges that skip the processing status
DirectEdges == {"pending", "failed"} \X {"completed", "failed"}

\* C1, as claimed: every change of a row's persisted status is one of the
\* four lifecycle edges, whatever the store does with the writes.
C1_OnlyLifecycleEdges ==
    [][\A r \in Rows :
          (r \in DOMAIN table' /\ table'[r].status # table[r].status)
          => <<table[r].status, table'[r].status>> \in LifecycleEdges]_vars

\* C1, amended: every change of a row's persisted status is one of the four
\* lifecycle edges, or goes from pending or failed directly to completed or
\* failed in an attempt whose processing write the store rejected; no row
\* leaves completed.
C1_EdgesUnlessProcessingWriteRejected ==
    [][\A r \in Rows :
          (r \in DOMAIN table' /\ table'[r].status # table[r].status)
          => \/ <<table[r].status, table'[r].status>> \in LifecycleEdges
             \/ /\ <<table[r].status, table'[r].status>> \in DirectEdges
                /\ Attempting(1, r)
                /\ ~log[1][1].ok]_vars

\* C1 witness: an attempt whose processing write was rejected has persisted
\* its terminal status
C1_Witness ==
    \E r \in Rows :
        /\ Len(log[1]) = 2
        /\ log[1][1].id = r /\ ~log[1][1].ok /\ log[1][2].ok
        /\ table[r].status \in {"completed", "failed"}

\* C2: in every reachable state every row has processed = TRUE exactly when
\* its status is completed.
C2_ProcessedIffCompleted ==
    \A r \in Rows : table[r].processed = (table[r].status = "completed")

\* C2 witness: a row has been written completed, another status write has
\* left a row not completed
C2_Witness ==
    \E r, q \in Rows :
        /\ table[r].status = "completed" /\ table[r].processed
        /\ table[q].status \in {"processing", "failed"} /\ ~table[q].processed

\* C3: every completed row has retry_count 0, and a step that takes a row's
\* retry_count from a positive value to 0 leaves the row completed.
C3_CompletedHasZeroRetries ==
    /\ [](\A r \in Rows : table[r].status = "completed" => table[r].retry_count = 0)
    /\ [][\A r \in Rows :
            (r \in DOMAIN table' /\ table[r].retry_count # 0
                /\ table'[r].retry_count = 0)
            => table'[r].status = "completed"]_vars

\* C3 witness: a row whose first two attempts failed and were persisted (its
\* retry_count was 2) has been written completed by its third attempt
C3_Witness ==
    \E r \in Rows :
        /\ table[r].status = "completed" /\ table[r].retry_count = 0
        /\ hist.attempts[r] = 3 /\ ~hist.lost[r]
        /\ table[r].error_message # None
        /\ Len(log[1]) = 2 /\ log[1][2].id = r /\ log[1][2].status = "completed"

\* C4, as claimed: error_message and last_error are both present on every
\* failed row and both absent on every row that is pending, processing or
\* completed.
C4_ErrorFieldsIffFailed ==
    \A r \in Rows :
        IF table[r].status = "failed"
        THEN table[r].error_message # None /\ table[r].last_error # None
        ELSE table[r].error_message = None /\ table[r].last_error = None

\* C4, the case the claim singles out: a completed row carries no error
\* field.
C4_CompletedHasNoError ==
    \A r \in Rows :
        table[r].status = "completed"
        => table[r].error_message = None /\ table[r].last_error = None

\* C5, as claimed: a row that has failed N attempts in a row since it was
\* created, 1 <= N <= MAX_RETRY_COUNT, is failed with retry_count N once
\* the Nth attempt has returned.
C5_RetryCountIsFailures ==
    \A r \in Rows :
        (hist.fails[r] \in 1..MAX_RETRY_COUNT /\ ~Attempting(1, r))
        => table[r].status = "failed" /\ table[r].retry_count = hist.fails[r]

\* C5, amended: the same for a row none of whose terminal writes the store
\* has rejected (between the writes of an attempt the count is already the
\* number of failures); and every failed write sends the row's retry_count
\* plus 1.
C5_RetryCountIsPersistedFailures ==
    /\ [](\A r \in Rows :
            (hist.fails[r] \in 1..MAX_RETRY_COUNT /\ ~hist.lost[r])
            => /\ table[r].retry_count = hist.fails[r]
               /\ ~Attempting(1, r) => table[r].status = "failed")
    /\ [][\A r \in Rows :
            (Attempting(1, r) /\ cur'[1] = None
                /\ log'[1][Len(log'[1])].status = "failed")
            => log'[1][Len(log'[1])].retry_count
                = Some(table[r].retry_count + 1)]_vars

\* C5 witness: a row has failed MAX_RETRY_COUNT attempts in a row, every
\* failed write accepted
C5_Witness ==
    \E r \in Rows :
        /\ hist.fails[r] = MAX_RETRY_COUNT /\ ~hist.lost[r]
        /\ table[r].status = "failed"
        /\ table[r].retry_count = MAX_RETRY_COUNT

----------------------------------------------------------------------------
(* Policy decisions *)

\* row r is in runner 1's queue
Selected(r) == \E i \in 1..Len(queue[1]) : queue[1][i].id = r

\* the decision C6 states: no retry at MAX_RETRY_COUNT; below it, no retry
\* exactly when updated_at is present, parses and is less than RETRY_DELAY
\* before t
RetryReference(record, t) ==
    IF record.retry_count >= MAX_RETRY_COUNT THEN FALSE
    ELSE ~ /\ record.updated_at # None
           /\ record.updated_at[1].kind # "garbage"
           /\ t - record.updated_at[1].t < RETRY_DELAY_HOURS

\* the same decision with "readable" read as: parses to a datetime without
\* an offset
RetryReferenceNaive(record, t) ==
    IF record.retry_count >= MAX_RETRY_COUNT THEN FALSE
    ELSE ~ /\ record.updated_at # None
           /\ record.updated_at[1].kind = "naive"
           /\ t - record.updated_at[1].t < RETRY_DELAY_HOURS

\* C6, as claimed: the failed sweep keeps exactly the failed rows the
\* reference decision accepts, and filtering changes no row.
C6_RetryDecisionIsReference ==
    [][(pc[1] = "pending" /\ pc'[1] = "failed" /\ faults' = faults)
        => /\ table' = table
           /\ \A r \in Rows :
                table[r].status = "failed"
                => ((\E i \in 1..Len(queue'[1]) : queue'[1][i].id = r)
                        <=> RetryReference(table[r], now))]_vars

\* C6 on timestamps without an offset only: the failed sweep keeps exactly
\* the failed rows RetryReferenceNaive accepts.
C6_RetryDecisionOnNaive ==
    [][(pc[1] = "pending" /\ pc'[1] = "failed" /\ faults' = faults)
        => /\ table' = table
           /\ \A r \in Rows :
                table[r].status = "failed"
                => ((\E i \in 1..Len(queue'[1]) : queue'[1][i].id = r)
                        <=> RetryReferenceNaive(table[r], now))]_vars

\* C7: a completed row is in no sweep's queue and under no attempt, and no
\* step changes or deletes it.
C7_CompletedIsTerminal ==
    /\ [](\A r \in Rows :
            table[r].status = "completed" => ~Selected(r) /\ ~Attempting(1, r))
    /\ [][\A r \in Rows :
            table[r].status = "completed"
            => r \in DOMAIN table' /\ table'[r] = table[r]]_vars

\* C7 witness: a row completed in an earlier invocation is still completed
\* while the failed sweep of a later invocation retries another row
C7_Witness ==
    \E r \in Rows :
        /\ table[r].status = "completed"
        /\ hist.attempts[r] >= 1
        /\ run[1].pending[r] = 0 /\ run[1].failed[r] = 0
        /\ pc[1] = "failed" /\ cur[1] # None

\* C8: a step deletes a row only if the row is failed, its retry_count is
\* at least MAX_RETRY_COUNT and its updated_at is present, parses to a
\* datetime that compares with the clock, and is strictly earlier than the
\* instant of the cleanup minus 7 days.
C8_CleanupDeletesOnlyStaleExhausted ==
    [][\A r \in Rows :
          r \notin DOMAIN table'
          => /\ table[r].status = "failed"
             /\ table[r].retry_count >= MAX_RETRY_COUNT
             /\ table[r].updated_at # None
             /\ table[r].updated_at[1].kind = "naive"
             /\ table[r].updated_at[1].t < now - CLEANUP_AGE_HOURS]_vars

\* C8 witness: the cleanup has run, it has deleted a row, and it has kept
\* an exhausted row whose updated_at is exactly 7 days old
C8_Witness ==
    /\ pc[1] = "idle"
    /\ RecordIds \ Rows # {}
    /\ \E r \in Rows :
        /\ table[r].status = "failed"
        /\ table[r].retry_count >= MAX_RETRY_COUNT
        /\ table[r].updated_at = Some(IsoFormat(now - CLEANUP_AGE_HOURS))

\* C9, as claimed: within one invocation of process_all_images every row
\* is attempted at most once and its retry_count rises by at most 1.
C9_OneAttemptPerInvocation ==
    \A r \in RecordIds :
        /\ run[1].pending[r] + run[1].failed[r] <= 1
        /\ r \in Rows => table[r].retry_count <= run[1].base[r] + 1

\* C9, amended: within one invocation every row is attempted at most once
\* by each sweep, its retry_count rises by at most the number of attempts
\* on it, and the failed sweep takes a row the invocation has attempted
\* only when its updated_at is not less than RETRY_DELAY old.
C9_OneAttemptPerSweep ==
    /\ [](\A r \in RecordIds :
            /\ run[1].pending[r] <= 1
            /\ run[1].failed[r] <= 1
            /\ r \in Rows =>
                table[r].retry_count
                    <= run[1].base[r] + run[1].pending[r] + run[1].failed[r])
    /\ [][(pc[1] = "pending" /\ pc'[1] = "failed")
            => \A i \in 1..Len(queue'[1]) :
                 run[1].pending[queue'[1][i].id] > 0
                 => ~ /\ queue'[1][i].updated_at # None
                      /\ queue'[1][i].updated_at[1].kind = "naive"
                      /\ now - queue'[1][i].updated_at[1].t < RETRY_DELAY_HOURS]_vars

\* C9 witness: one invocation has failed a row in its pending sweep and
\* again in its failed sweep, and the row's retry_count has risen by 2
C9_Witness ==
    \E r \in Rows :
        /\ run[1].pending[r] = 1 /\ run[1].failed[r] = 1
        /\ table[r].status = "failed"
        /\ table[r].retry_count = run[1].base[r] + 2

\* C10, as claimed: when process_single_image has returned False, it has
\* attempted a failed write carrying an error message and the retry_count
\* it read plus 1.
C10_FailureReturnsAfterFailedWrite ==
    ret[1] = Some(FALSE)
    => \E i \in 1..Len(log[1]) :
         /\ log[1][i].status = "failed"
         /\ log[1][i].error
         /\ log[1][i].retry_count = Some(log[1][i].read + 1)

\* C10 restricted to the except branch: when the inference has failed, the
\* failed write has been attempted.
C10_InferenceFailureWritesFailed ==
    (ret[1] = Some(FALSE) /\ log[1][Len(log[1])].status # "completed")
    => \E i \in 1..Len(log[1]) :
         /\ log[1][i].status = "failed"
         /\ log[1][i].error
         /\ log[1][i].retry_count = Some(log[1][i].read + 1)

----------------------------------------------------------------------------
(* Recovery and cleanup under recurring runs *)

\* row r is processing and no attempt on it is under way: the attempt that
\* wrote processing has returned without a persisted terminal status
Stuck(r) == r \in Rows /\ table[r].status = "processing" /\ ~Attempting(1, r)

\* C11, as claimed: when runs keep recurring, every row an attempt has left
\* processing is selected again by a later sweep (no row stays processing
\* forever).
C11_StuckRowsAreSelectedAgain ==
    \A r \in RecordIds : Stuck(r) ~> (Selected(r) \/ Attempting(1, r))

\* C11, what the code does with a row left processing: no step selects,
\* changes or deletes it.
C11_StuckIsForever ==
    [][\A r \in Rows :
          Stuck(r)
          => /\ r \in DOMAIN table' /\ table'[r] = table[r]
             /\ cur'[1] = None \/ cur'[1][1].id # r
             /\ \A i \in 1..Len(queue'[1]) : queue'[1][i].id # r]_vars

\* C11 for the rows an attempt has left pending (both of its writes
\* rejected): when runs keep recurring, a later pending sweep attempts them.
C11_PendingRowsAreAttemptedAgain ==
    \A r \in RecordIds :
        (r \in Rows /\ table[r].status = "pending" /\ hist.lost[r]
            /\ ~Attempting(1, r))
        ~> Attempting(1, r)

\* row r is failed with its retries used up
Exhausted(r) ==
    r \in Rows /\ table[r].status = "failed"
        /\ table[r].retry_count >= MAX_RETRY_COUNT

\* the instant r's updated_at denotes is more than 7 days before the clock
Stale(r) ==
    /\ table[r].updated_at # None
    /\ table[r].updated_at[1].kind # "garbage"
    /\ table[r].updated_at[1].t < now - CLEANUP_AGE_HOURS

\* C12, as claimed: a run of cleanup_old_failures that the store answers
\* removes every failed row with retry_count >= MAX_RETRY_COUNT whose
\* updated_at is more than 7 days in the past.
C12_StaleExhaustedIsRemoved ==
    [][(pc[1] = "failed" /\ pc'[1] = "idle" /\ faults' = faults)
        => \A r \in Rows :
             (Exhausted(r) /\ Stale(r)) => r \notin DOMAIN table']_vars

\* C12 on timestamps without an offset only: such a run removes every
\* exhausted row whose updated_at is more than 7 days in the past.
C12_StaleExhaustedNaiveIsRemoved ==
    [][(pc[1] = "failed" /\ pc'[1] = "idle" /\ faults' = faults)
        => \A r \in Rows :
             (Exhausted(r) /\ Stale(r) /\ table[r].updated_at[1].kind = "naive")
             => r \notin DOMAIN table']_vars

\* C12, its first half: an exhausted row is in no sweep's queue and under no
\* attempt, and a step either leaves it as it is or deletes it.
C12_ExhaustedIsNeverAttempted ==
    /\ [](\A r \in Rows : Exhausted(r) => ~Selected(r) /\ ~Attempting(1, r))
    /\ [][\A r \in Rows :
            (Exhausted(r) /\ r \in DOMAIN table') => table'[r] = table[r]]_vars

\* C12, eventual removal of the rows the runner itself has exhausted: when
\* runs keep recurring, such a row is removed once it is stale.
C12_StaleExhaustedEventuallyRemoved ==
    \A r \in RecordIds : (Exhausted(r) /\ Stale(r)) ~> (r \notin Rows)

----------------------------------------------------------------------------
(* Query failures and the result columns *)

\* C13: in an invocation whose pending query failed, the pending sweep
\* attempts no row; the step of the failed query changes no row and leaves
\* nothing to attempt; and from the end of that sweep the failed sweep can
\* run, and from the end of the failed sweep the cleanup can run.
C13_FailedQueryAbortsItsSweepOnly ==
    /\ [](~run[1].pending_ok => \A r \in RecordIds : run[1].pending[r] = 0)
    /\ [][(pc[1] = "idle" /\ pc'[1] = "pending" /\ ~run'[1].pending_ok)
            => table' = table /\ queue'[1] = <<>> /\ cur'[1] = None]_vars
    /\ []((~run[1].pending_ok /\ pc[1] = "pending")
            => queue[1] = <<>> /\ cur[1] = None /\ ENABLED RetryFailedQuery(1))
    /\ []((~run[1].pending_ok /\ pc[1] = "failed" /\ queue[1] = <<>> /\ cur[1] = None)
            => ENABLED CleanupOldFailures(1))

\* C13 witness: an invocation whose pending query failed has retried a
\* failed row in its failed sweep and has run the cleanup
C13_Witness ==
    /\ ~run[1].pending_ok
    /\ pc[1] = "idle"
    /\ \E r \in RecordIds : run[1].failed[r] = 1
    /\ \A r \in RecordIds : run[1].pending[r] = 0

\* C14, as claimed: every completed row has processed_image_url,
\* processing_result (possibly the empty list) and processed_at set, and
\* processed_at is set on no row that is not completed.
C14_CompletedHasResults ==
    \A r \in Rows :
        /\ table[r].status = "completed"
            => /\ table[r].processed_image_url # None
               /\ table[r].processing_result # None
               /\ table[r].processed_at # None
        /\ table[r].processed_at # None => table[r].status = "completed"

\* C14 without the detections: every completed row has processed_image_url
\* and processed_at set, and processed_at is set on completed rows only.
C14_CompletedHasUrlAndTime ==
    \A r \in Rows :
        /\ table[r].status = "completed"
            => /\ table[r].processed_image_url # None
               /\ table[r].processed_at # None
        /\ table[r].processed_at # None => table[r].status = "completed"

\* C14, the rows that break it: a completed row has no processing_result
\* exactly when its attempt detected nothing.
C14_DetectionsKeptUnlessEmpty ==
    [][\A r \in Rows :
          (r \in DOMAIN table' /\ table[r].status # "completed"
              /\ table'[r].status = "completed")
          => \E out \in InferenceOutcomes(table[r]) :
               /\ out.ok
               /\ table'[r].processing_result =
                    (IF out.detections = <<>> THEN None ELSE Some(out.detections))]_vars

----------------------------------------------------------------------------
(* Overlapping invocations *)

\* C15: the processing write of an attempt is made whatever the row's
\* status has become since the sweep's query: a runner that begins an
\* attempt leaves the row processing, stamped with the instant of the write,
\* and goes on with the attempt.
C15_ProcessingWriteIsUnconditional ==
    [][\A w \in Runners :
          (cur[w] = None /\ cur'[w] # None /\ cur'[w][1].id \in Rows)
          => /\ cur'[w][1].status \in {"pending", "failed"}
             /\ table'[cur'[w][1].id].status = "processing"
             /\ table'[cur'[w][1].id].updated_at = Some(IsoFormat(now))]_vars

\* C15 witness: both runners are between the two writes of an attempt on
\* the same row, each holding it in the status its query saw
C15_Witness ==
    \E r \in Rows :
        /\ Attempting(1, r) /\ Attempting(2, r)
        /\ cur[1][1].status = cur[2][1].status
        /\ cur[1][1].status \in {"pending", "failed"}
        /\ hist.attempts[r] >= 2

----------------------------------------------------------------------------
(* The attempt *)

\* C16: an attempt whose processing write the store rejected goes on: while
\* only that write is logged the attempt holds its row and its terminal
\* write can be made; once it has returned, its log is the processing write
\* and exactly one terminal write on the same row, completed when the
\* inference succeeded, failed with the retry_count read plus 1 when not.
C16_RejectedProcessingWriteDoesNotAbort ==
    /\ Len(log[1]) <= 2
    /\ (Len(log[1]) = 1 /\ ~log[1][1].ok)
        => /\ log[1][1].status = "processing"
           /\ Attempting(1, log[1][1].id)
           /\ ret[1] = None
           /\ ENABLED AttemptEnd(1)
    /\ (Len(log[1]) = 2 /\ ~log[1][1].ok)
        => /\ ret[1] # None /\ cur[1] = None
           /\ log[1][2].id = log[1][1].id
           /\ log[1][2].status \in {"completed", "failed"}
           /\ log[1][2].status = "completed" <=> hist.fails[log[1][1].id] = 0
           /\ log[1][2].status = "failed"
                => log[1][2].retry_count = Some(log[1][2].read + 1)
    /\ (ret[1] # None) => Len(log[1]) = 2

\* C16 witness: a retry whose processing write was rejected has returned
\* after a failed write with retry_count 2
C16_Witness ==
    /\ ret[1] = Some(FALSE)
    /\ Len(log[1]) = 2
    /\ ~log[1][1].ok
    /\ log[1][2].status = "failed" /\ log[1][2].retry_count = Some(2)

\* the columns of a row no status update sends
Immutable(row) == <<row.id, row.filename, row.original_image_url, row.created_at>>

\* C17: no step changes a row's id, filename, original_image_url or
\* created_at, every row is stored under its id, and the two steps of an
\* attempt on a row leave every other row as it is.
C17_AttemptWritesOnlyItsRecord ==
    /\ [](\A r \in Rows : table[r].id = r)
    /\ [][\A r \in Rows :
            r \in DOMAIN table' => Immutable(table'[r]) = Immutable(table[r])]_vars
    /\ [][\A r \in Rows :
            (\/ cur[1] = None /\ cur'[1] # None /\ cur'[1][1].id # r
             \/ cur[1] # None /\ cur[1][1].id # r)
            => r \in DOMAIN table' /\ table'[r] = table[r]]_vars

\* C17 witness: an attempt has completed one row while the other row is
\* still as it was created
C17_Witness ==
    \E r, q \in Rows :
        /\ r # q
        /\ table[r].status = "completed" /\ ret[1] = Some(TRUE)
        /\ Immutable(table[r]) = Immutable(NewRow(r))
        /\ table[q] = NewRow(q)

----------------------------------------------------------------------------
(* Bounded retries *)

\* C18: in every reachable state of a single runner every row's retry_count
\* is between 0 and MAX_RETRY_COUNT.
C18_RetryCountWithinLimit ==
    \A r \in Rows : table[r].retry_count \in 0..MAX_RETRY_COUNT

\* C18 witness: the failed sweep has passed over a row at MAX_RETRY_COUNT
\* whose last failure is RETRY_DELAY or more in the past
C18_Witness ==
    \E r \in Rows :
        /\ table[r].status = "failed"
        /\ table[r].retry_count = MAX_RETRY_COUNT
        /\ pc[1] = "failed" /\ run[1].base[r] = MAX_RETRY_COUNT
        /\ table[r].updated_at[1].t + RETRY_DELAY_HOURS <= now
        /\ ~Selected(r) /\ ~Attempting(1, r) /\ run[1].failed[r] = 0

\* C19, as claimed: a row is attempted at most MAX_RETRY_COUNT times, for
\* every outcome of the inference and of the store writes.
C19_AtMostMaxAttempts ==
    \A r \in RecordIds : hist.attempts[r] <= MAX_RETRY_COUNT

\* C19, amended: a row none of whose terminal writes the store has rejected
\* has been attempted at most MAX_RETRY_COUNT times, whatever the outcomes
\* of the inference and of the processing writes; and no row has been
\* attempted more than MAX_RETRY_COUNT times plus the number of store
\* operations rejected so far.
C19_AtMostMaxPersistedAttempts ==
    \A r \in RecordIds :
        /\ ~hist.lost[r] => hist.attempts[r] <= MAX_RETRY_COUNT
        /\ hist.attempts[r] <= MAX_RETRY_COUNT + faults

\* C19 witness: a row attempted MAX_RETRY_COUNT times, every terminal write
\* accepted, has been left alone by a whole later invocation
C19_Witness ==
    \E r \in Rows :
        /\ hist.attempts[r] = MAX_RETRY_COUNT /\ ~hist.lost[r]
        /\ table[r].status = "failed"
        /\ pc[1] = "idle" /\ run[1].base[r] = MAX_RETRY_COUNT
        /\ run[1].pending[r] = 0 /\ run[1].failed[r] = 0

====
